---- MODULE Spec2Model ----
(***************************************************************************)
(* quickhash (src/main.rs): a producer cuts standard input into blocks of  *)
(* BUF_SIZE bytes, tags each with a sequence number and hands it to a pool *)
(* of workers over a bounded channel; each worker hashes (sequence number, *)
(* bytes) and sends the digest to a reducer, which folds the digests in    *)
(* sequence order with XOR and sends the total to main, which prints it.   *)
(* Buffers go back to the producer over a second bounded channel.          *)
(***************************************************************************)
EXTENDS Integers, Sequences, FiniteSets, Bags, TLC

\* ---- bounds of the model ------------------------------------------------
\* BUF_SIZE is 1024 * 512 in the source; the model scales the block down.
BUF_SIZE == 2
\* num_cpus::get() returns some count in 1..MaxWorkers.
MaxWorkers == 2
\* Standard input delivers at most MaxLen bytes.
MaxLen == 5
\* The digest is HashBits wide (128 in the source).
HashBits == 6

\* Blocks of the longer input on which two workers fill the reducer's heap.
LongBlocks == 6

\* The values a byte of the input takes in the model (u8 in the source).
Byte == 0..1

NoErr == -1
NoBuf == 0

VARIABLES
    input,      \* the bytes standard input has delivered so far
    errAt,      \* offset at which a read of standard input failed, or NoErr
    workers,    \* num_cpus::get()
    eof,        \* standard input has signalled end of input (it persists)
    bufs,       \* buffer id -> Buf(seq, bytes)
    emptyQ,     \* empty_buf channel: buffer ids, FIFO
    fullQ,      \* full_buf channel: buffer ids, FIFO
    resultsQ,   \* results channel: HashResultIdx records, FIFO
    finishQ,    \* finish channel: HashResult records
    emptyRxLive,\* the producer still holds empty_buf_rx
    fullTxLive, \* the producer still holds full_buf_tx
    mainPc,     \* position of the main (producer) thread
    mainBuf,    \* buffer the producer loop holds, or NoBuf
    block,      \* the producer's block counter
    exitcode,   \* main's exitcode variable
    wPc,        \* worker -> position
    wBuf,       \* worker -> buffer it holds, or NoBuf
    redPc,      \* position of the reducer thread
    results,    \* the reducer's BinaryHeap, as a sequence of its elements
    next,       \* the reducer's next
    total,      \* the reducer's total
    result,     \* what main received from finish_rx, or <<>>
    stdout,     \* lines printed
    status,     \* process exit status, or NoErr while running
    freed,      \* buffers that were dropped
    panicked,   \* an expect() failed
    reads,      \* history: number of read_to_end calls made
    published,  \* history: <<seq, bytes>> of every block sent on full_buf
    emitted,    \* history: bag of the HashResultIdx records sent on results
    reordered,  \* history: a record was sent after one of a later block
    foldedSeq,  \* history: sequence numbers folded, in fold order
    sent        \* history: number of sends on finish_tx

vars == <<input, errAt, workers, eof, bufs, emptyQ, fullQ, resultsQ, finishQ,
          emptyRxLive, fullTxLive, mainPc, mainBuf, block, exitcode, wPc, wBuf,
          redPc, results, next, total, result, stdout, status, freed, panicked,
          reads, published, emitted, reordered, foldedSeq, sent>>

\* ---- helpers ------------------------------------------------------------
Min(a, b) == IF a < b THEN a ELSE b

RECURSIVE Pow(_, _)
Pow(b, e) == IF e = 0 THEN 1 ELSE b * Pow(b, e - 1)

HashMod == Pow(2, HashBits)

\* u128 ^ u128, on the model's width.
RECURSIVE Xor(_, _)
Xor(a, b) ==
    IF a = 0 THEN b
    ELSE IF b = 0 THEN a
    ELSE (((a % 2) + (b % 2)) % 2) + 2 * Xor(a \div 2, b \div 2)

\* Mutant of Capacity: the channels are bounded(workers).
CapacityPerWorker == workers

\* bounded(workers * 2): the capacity of empty_buf, full_buf and results.
Capacity == workers * 2
Workers == 1..workers

\* Mutant of Pool: one buffer is sent per worker instead of two.
PoolOnePerWorker == 1..workers

\* The buffers sent to empty_buf_tx at startup, two per worker.
Pool == 1..(workers * 2)

\* ---- hashing ------------------------------------------------------------
\* The k low bytes of n, least significant first.
RECURSIVE LeBytes(_, _)
LeBytes(n, k) ==
    IF k = 0 THEN <<>> ELSE <<n % 256>> \o LeBytes(n \div 256, k - 1)

\* Hasher::write_u64: the eight bytes of the sequence number.
U64Bytes(n) == LeBytes(n, 8)

\* SipHasher::new(): the initial state of the keyed hash.
SipNew == 1

\* Hasher::write: the hash state absorbs the bytes one by one.  SipHash is
\* an external crate; the model keeps what the program relies on: the
\* state depends on every byte written and on the order they are written.
RECURSIVE SipWrite(_, _)
SipWrite(h, bytes) ==
    IF bytes = <<>> THEN h
    ELSE SipWrite(((h * 37) + Head(bytes) + 11) % HashMod, Tail(bytes))

\* HashWriter::new
HashWriterNew(h) == [hash |-> h, len |-> 0]

\* Mutant of HashWriterWrite: self.len is not advanced.
HashWriterWriteNoLen(hw, bytes) ==
    [hash |-> SipWrite(hw.hash, bytes), len |-> hw.len]

\* <HashWriter as Write>::write (write_all writes the whole slice)
HashWriterWrite(hw, bytes) ==
    [hash |-> SipWrite(hw.hash, bytes), len |-> hw.len + Len(bytes)]

\* Mutant of HashWriterClose: the length is reported in bits.
HashWriterCloseBits(hw) == [hash |-> hw.hash, len |-> hw.len * 8]

\* HashWriter::close
HashWriterClose(hw) == [hash |-> hw.hash, len |-> hw.len]

\* Mutant of HashResultDefault: the fold starts from the hasher's initial
\* state instead of zero.
HashResultSeeded == [hash |-> SipNew, len |-> 0]

\* HashResult::default
HashResultDefault == [hash |-> 0, len |-> 0]

\* HashResult::add
HashResultAdd(self, other) ==
    [hash |-> Xor(self.hash, other.hash), len |-> self.len + other.len]

\* Mutant of HashBlock: the sequence number is not written before the bytes.
HashBlockNoPrefix(buf) ==
    [idx |-> buf.seq,
     res |-> HashWriterClose(HashWriterWrite(HashWriterNew(SipNew), buf.bytes))]

\* The worker's loop body up to the send: hash the prefix, then the bytes.
HashBlock(buf) ==
    LET h0 == HashWriterNew(SipNew)
        h1 == [h0 EXCEPT !.hash = SipWrite(h0.hash, U64Bytes(buf.seq))]
        h2 == HashWriterWrite(h1, buf.bytes)
    IN  [idx |-> buf.seq, res |-> HashWriterClose(h2)]

\* ---- the reducer's heap -------------------------------------------------
\* Mutant of PeekIndex: Ord is not reversed, peek is a greatest element.
PeekIndexMax(h) ==
    CHOOSE i \in 1..Len(h) : \A j \in 1..Len(h) : h[i].idx >= h[j].idx

\* Ord for HashResultIdx is reversed on field 0, so BinaryHeap::peek is an
\* element with the least sequence number.
PeekIndex(h) ==
    CHOOSE i \in 1..Len(h) : \A j \in 1..Len(h) : h[i].idx <= h[j].idx

RemoveAt(s, i) == SubSeq(s, 1, i - 1) \o SubSeq(s, i + 1, Len(s))

\* Mutant of PeekIsNext: the loop pops whatever the heap holds.
PeekIsAny(h, n) == Len(h) > 0

\* results.peek().map(|x| x.0) == Some(next)
PeekIsNext(h, n) == Len(h) > 0 /\ h[PeekIndex(h)].idx = n

\* ---- output -------------------------------------------------------------
HexDigit(d) ==
    <<"0", "1", "2", "3", "4", "5", "6", "7",
      "8", "9", "a", "b", "c", "d", "e", "f">>[d + 1]

\* {:x}: lowercase hexadecimal, no padding.
RECURSIVE FormatHex(_)
FormatHex(n) ==
    IF n < 16 THEN <<HexDigit(n)>>
    ELSE FormatHex(n \div 16) \o <<HexDigit(n % 16)>>

\* ---- initial state ------------------------------------------------------
\* The state when the producer loop starts, for the buffers P sent to
\* empty_buf_tx: the pool is populated, the workers and the reducer are
\* spawned, main's clones are dropped.
Setup(P) ==
    /\ input = <<>>
    /\ errAt = NoErr
    /\ eof = FALSE
    /\ bufs = [b \in P |-> [seq |-> 0, bytes |-> <<>>]]
    /\ emptyQ = [i \in P |-> i]
    /\ fullQ = <<>>
    /\ resultsQ = <<>>
    /\ finishQ = <<>>
    /\ emptyRxLive = TRUE
    /\ fullTxLive = TRUE
    /\ mainPc = "acquire"
    /\ mainBuf = NoBuf
    /\ block = 0
    /\ exitcode = 0
    /\ wPc = [w \in Workers |-> "recv"]
    /\ wBuf = [w \in Workers |-> NoBuf]
    /\ redPc = "recv"
    /\ results = <<>>
    /\ next = 0
    /\ total = HashResultDefault
    /\ result = <<>>
    /\ stdout = <<>>
    /\ status = NoErr
    /\ freed = {}
    /\ panicked = FALSE
    /\ reads = 0
    /\ published = <<>>
    /\ emitted = EmptyBag
    /\ reordered = FALSE
    /\ foldedSeq = <<>>
    /\ sent = 0

\* let workers = num_cpus::get(), and the pool of two buffers per worker.
Init ==
    /\ workers \in 1..MaxWorkers
    /\ Setup(Pool)

\* The same start with a smaller pool, of one buffer up to one per worker:
\* the loop at line 92 sending fewer buffers.
InitSmallPool ==
    /\ workers \in 1..MaxWorkers
    /\ \E n \in 1..workers : Setup(1..n)

\* ---- channel ends -------------------------------------------------------
\* A worker holds its clones of empty_buf_tx, full_buf_rx and results_tx
\* until its closure returns.
WorkerLive(w) == wPc[w] # "done"
AnyWorkerLive == \E w \in Workers : WorkerLive(w)
\* results_rx lives until the reducer's for loop ends.
ResultsRxLive == redPc = "recv"

\* ---- the producer (main thread) -----------------------------------------
\* Mutant of LeaveLoop: the arm does not break, the loop goes on.
LeaveLoopGoesOn(held) ==
    /\ mainBuf' = NoBuf
    /\ mainPc' = "acquire"
    /\ freed' = freed \cup held
    /\ UNCHANGED <<emptyRxLive, emptyQ>>

\* Leaving the for loop drops the buffer in hand and empty_buf_rx; the
\* buffers still queued in the channel are freed at once or stay queued
\* until the channel goes, depending on the channel implementation.
LeaveLoop(held) ==
    /\ emptyRxLive' = FALSE
    /\ mainBuf' = NoBuf
    /\ mainPc' = "close"
    /\ \E discard \in BOOLEAN :
        IF discard
        THEN /\ emptyQ' = <<>>
             /\ freed' = freed \cup held \cup {emptyQ[i] : i \in 1..Len(emptyQ)}
        ELSE /\ emptyQ' = emptyQ
             /\ freed' = freed \cup held

\* for mut buf in empty_buf_rx
ProducerAcquire ==
    /\ mainPc = "acquire"
    /\ emptyQ # <<>> \/ ~AnyWorkerLive
    /\ IF emptyQ # <<>>
       THEN /\ mainBuf' = Head(emptyQ)
            /\ emptyQ' = Tail(emptyQ)
            /\ mainPc' = "read"
            /\ UNCHANGED <<emptyRxLive, freed>>
       ELSE LeaveLoop({})
    /\ UNCHANGED <<input, errAt, workers, eof, bufs, fullQ, resultsQ, finishQ,
                   fullTxLive, block, exitcode, wPc, wBuf, redPc, results,
                   next, total, result, stdout, status, panicked, reads,
                   published, emitted, reordered, foldedSeq, sent>>

\* What one take(BUF_SIZE).read_to_end can do on an input of at most cap
\* bytes: deliver n bytes and stop at the limit ("limit", n = BUF_SIZE), at
\* end of input ("eof", before the limit) or at a failing read ("err",
\* before the limit: no read is issued once the limit is reached).  End of
\* input persists.
ReadOutcomesUpTo(cap) ==
    {o \in [n : 0..Min(BUF_SIZE, cap - Len(input)),
            how : {"limit", "eof", "err"}] :
        /\ eof => (o.n = 0 /\ o.how = "eof")
        /\ (o.how = "limit") = (o.n = BUF_SIZE)}

\* Mutant of ReadOutcomes: read_to_end without take(BUF_SIZE) reads up to
\* the end of input or a failing read.
ReadOutcomesNoTake ==
    {o \in [n : 0..(MaxLen - Len(input)), how : {"eof", "err"}] :
        eof => (o.n = 0 /\ o.how = "eof")}

\* The outcomes of a read on standard input, an input of at most MaxLen
\* bytes.
ReadOutcomes == ReadOutcomesUpTo(MaxLen)

\* Mutant of IsErr: a failed read is taken for Ok(n).
IsErrNever(o) == FALSE

\* The value read_to_end returns: Ok(n) or Err.
IsErr(o) == o.how = "err"

\* Mutant of Tag: the buffer keeps the sequence number it came back with.
TagKeeps(buf, blk) == buf

\* buf.0 = block
Tag(buf, blk) == [buf EXCEPT !.seq = blk]

\* Mutant of ExitcodeAfter: the Err arm does not set exitcode.
ExitcodeAfterKeeps(failed, code) == code

\* exitcode = 1 in the Err arm, untouched in the others.
ExitcodeAfter(failed, code) == IF failed THEN 1 ELSE code

\* input.by_ref().take(BUF_SIZE as u64).read_to_end(&mut buf.1) and the
\* three arms of the match.  The bytes read are appended to the buffer,
\* also when the read ends in an error; Ok(n) carries the bytes read.
ReadFrom(outcomes, alphabet) ==
    /\ mainPc = "read"
    /\ reads' = reads + 1
    /\ \E o \in outcomes : \E got \in [1..o.n -> alphabet] :
        LET filled == [bufs[mainBuf] EXCEPT !.bytes = @ \o got]
        IN  /\ input' = input \o got
            /\ eof' = (eof \/ o.how = "eof")
            /\ errAt' = IF o.how = "err" THEN Len(input) + o.n ELSE errAt
            /\ exitcode' = ExitcodeAfter(IsErr(o), exitcode)
            /\ IF IsErr(o) \/ o.n = 0
               THEN /\ bufs' = [bufs EXCEPT ![mainBuf] = filled]
                    /\ LeaveLoop({mainBuf})
               ELSE /\ bufs' = [bufs EXCEPT ![mainBuf] = Tag(filled, block)]
                    /\ mainPc' = "send"
                    /\ UNCHANGED <<emptyRxLive, mainBuf, emptyQ, freed>>
    /\ UNCHANGED <<workers, fullQ, resultsQ, finishQ, fullTxLive, block, wPc,
                   wBuf, redPc, results, next, total, result, stdout, status,
                   panicked, published, emitted, reordered, foldedSeq, sent>>

\* The read of the producer loop on standard input.
ProducerRead == ReadFrom(ReadOutcomes, Byte)

\* The same read on a longer input, of up to LongBlocks blocks, all of its
\* bytes 0.
LongLen == BUF_SIZE * LongBlocks
ProducerReadLong == ReadFrom(ReadOutcomesUpTo(LongLen), {0})

\* full_buf_tx.send(buf).expect("worker thread must live"); block += 1
ProducerSend ==
    /\ mainPc = "send"
    /\ Len(fullQ) < Capacity \/ ~AnyWorkerLive
    /\ IF AnyWorkerLive
       THEN /\ fullQ' = Append(fullQ, mainBuf)
            /\ published' = Append(published, <<bufs[mainBuf].seq,
                                                 bufs[mainBuf].bytes>>)
            /\ block' = block + 1
            /\ mainPc' = "acquire"
            /\ UNCHANGED <<panicked, freed>>
       ELSE /\ panicked' = TRUE
            /\ freed' = freed \cup {mainBuf}
            /\ mainPc' = "panic"
            /\ UNCHANGED <<fullQ, published, block>>
    /\ mainBuf' = NoBuf
    /\ UNCHANGED <<input, errAt, workers, eof, bufs, emptyQ, resultsQ,
                   finishQ, emptyRxLive, fullTxLive, exitcode, wPc, wBuf,
                   redPc, results, next, total, result, stdout, status, reads,
                   emitted, reordered, foldedSeq, sent>>

\* Mutant of ProducerClose: full_buf_tx is not dropped before the join.
ProducerCloseKeepsTx ==
    /\ mainPc = "close"
    /\ mainPc' = "join"
    /\ UNCHANGED <<input, errAt, workers, eof, bufs, emptyQ, fullQ, resultsQ,
                   finishQ, emptyRxLive, fullTxLive, mainBuf, block, exitcode,
                   wPc, wBuf, redPc, results, next, total, result, stdout,
                   status, freed, panicked, reads, published, emitted,
                   reordered, foldedSeq, sent>>

\* drop(full_buf_tx)
ProducerClose ==
    /\ mainPc = "close"
    /\ fullTxLive' = FALSE
    /\ mainPc' = "join"
    /\ UNCHANGED <<input, errAt, workers, eof, bufs, emptyQ, fullQ, resultsQ,
                   finishQ, emptyRxLive, mainBuf, block, exitcode, wPc, wBuf,
                   redPc, results, next, total, result, stdout, status, freed,
                   panicked, reads, published, emitted, reordered, foldedSeq,
                   sent>>

\* The end of thread::scope: every spawned thread is joined.
MainJoin ==
    /\ mainPc = "join"
    /\ ~AnyWorkerLive
    /\ redPc = "done"
    /\ mainPc' = "result"
    /\ UNCHANGED <<input, errAt, workers, eof, bufs, emptyQ, fullQ, resultsQ,
                   finishQ, emptyRxLive, fullTxLive, mainBuf, block, exitcode,
                   wPc, wBuf, redPc, results, next, total, result, stdout,
                   status, freed, panicked, reads, published, emitted,
                   reordered, foldedSeq, sent>>

\* let result = finish_rx.recv().expect("result"); finish_tx is still alive
\* in main, so an empty channel blocks.
MainRecvResult ==
    /\ mainPc = "result"
    /\ finishQ # <<>>
    /\ result' = <<Head(finishQ)>>
    /\ finishQ' = Tail(finishQ)
    /\ mainPc' = "print"
    /\ UNCHANGED <<input, errAt, workers, eof, bufs, emptyQ, fullQ, resultsQ,
                   emptyRxLive, fullTxLive, mainBuf, block, exitcode, wPc,
                   wBuf, redPc, results, next, total, stdout, status, freed,
                   panicked, reads, published, emitted, reordered, foldedSeq,
                   sent>>

\* The two println! calls.
MainPrint ==
    /\ mainPc = "print"
    /\ stdout' = <<[label |-> "SIP128", size |-> BUF_SIZE,
                    hex |-> FormatHex(result[1].hash)],
                   [label |-> "LEN", len |-> result[1].len]>>
    /\ mainPc' = "exit"
    /\ UNCHANGED <<input, errAt, workers, eof, bufs, emptyQ, fullQ, resultsQ,
                   finishQ, emptyRxLive, fullTxLive, mainBuf, block, exitcode,
                   wPc, wBuf, redPc, results, next, total, result, status,
                   freed, panicked, reads, published, emitted, reordered,
                   foldedSeq, sent>>

\* std::process::exit(exitcode)
MainExit ==
    /\ mainPc = "exit"
    /\ status' = exitcode
    /\ mainPc' = "exited"
    /\ UNCHANGED <<input, errAt, workers, eof, bufs, emptyQ, fullQ, resultsQ,
                   finishQ, emptyRxLive, fullTxLive, mainBuf, block, exitcode,
                   wPc, wBuf, redPc, results, next, total, result, stdout,
                   freed, panicked, reads, published, emitted, reordered,
                   foldedSeq, sent>>

\* ---- the workers --------------------------------------------------------
\* for mut buf in full_buf_rx: a block, or the end of the loop once the
\* channel is closed and drained.
WorkerRecv(w) ==
    /\ wPc[w] = "recv"
    /\ fullQ # <<>> \/ ~fullTxLive
    /\ IF fullQ # <<>>
       THEN /\ wBuf' = [wBuf EXCEPT ![w] = Head(fullQ)]
            /\ fullQ' = Tail(fullQ)
            /\ wPc' = [wPc EXCEPT ![w] = "hash"]
       ELSE /\ wPc' = [wPc EXCEPT ![w] = "done"]
            /\ UNCHANGED <<wBuf, fullQ>>
    /\ UNCHANGED <<input, errAt, workers, eof, bufs, emptyQ, resultsQ,
                   finishQ, emptyRxLive, fullTxLive, mainPc, mainBuf, block,
                   exitcode, redPc, results, next, total, result, stdout,
                   status, freed, panicked, reads, published, emitted,
                   reordered, foldedSeq, sent>>

\* Hash the block and results_tx.send(HashResultIdx(buf.0, hasher.close()));
\* a failed send breaks out of the loop.
WorkerEmit(w) ==
    /\ wPc[w] = "hash"
    /\ Len(resultsQ) < Capacity \/ ~ResultsRxLive
    /\ IF ResultsRxLive
       THEN /\ resultsQ' = Append(resultsQ, HashBlock(bufs[wBuf[w]]))
            /\ emitted' = emitted (+) SetToBag({HashBlock(bufs[wBuf[w]])})
            /\ reordered' = (reordered \/ \E r \in BagToSet(emitted) :
                                            r.idx > bufs[wBuf[w]].seq)
            /\ wPc' = [wPc EXCEPT ![w] = "release"]
            /\ UNCHANGED <<wBuf, freed>>
       ELSE /\ wPc' = [wPc EXCEPT ![w] = "done"]
            /\ freed' = freed \cup {wBuf[w]}
            /\ wBuf' = [wBuf EXCEPT ![w] = NoBuf]
            /\ UNCHANGED <<resultsQ, emitted, reordered>>
    /\ UNCHANGED <<input, errAt, workers, eof, bufs, emptyQ, fullQ, finishQ,
                   emptyRxLive, fullTxLive, mainPc, mainBuf, block, exitcode,
                   redPc, results, next, total, result, stdout, status,
                   panicked, reads, published, foldedSeq, sent>>

\* Mutant of Clear: the buffer goes back with its bytes.
ClearKeeps(buf) == buf

\* buf.1.clear()
Clear(buf) == [buf EXCEPT !.bytes = <<>>]

\* Mutant of WorkerRelease: the buffer is not sent back, it is dropped at
\* the end of the loop body.
WorkerReleaseDrops(w) ==
    /\ wPc[w] = "release"
    /\ bufs' = [bufs EXCEPT ![wBuf[w]] = Clear(@)]
    /\ freed' = freed \cup {wBuf[w]}
    /\ wBuf' = [wBuf EXCEPT ![w] = NoBuf]
    /\ wPc' = [wPc EXCEPT ![w] = "recv"]
    /\ UNCHANGED <<input, errAt, workers, eof, emptyQ, fullQ, resultsQ,
                   finishQ, emptyRxLive, fullTxLive, mainPc, mainBuf, block,
                   exitcode, redPc, results, next, total, result, stdout,
                   status, panicked, reads, published, emitted, reordered,
                   foldedSeq, sent>>

\* buf.1.clear(); let _ = empty_buf_tx.send(buf): the send fails, and the
\* buffer is dropped, once the producer has dropped empty_buf_rx.
WorkerRelease(w) ==
    /\ wPc[w] = "release"
    /\ emptyRxLive => Len(emptyQ) < Capacity
    /\ bufs' = [bufs EXCEPT ![wBuf[w]] = Clear(@)]
    /\ IF emptyRxLive
       THEN /\ emptyQ' = Append(emptyQ, wBuf[w])
            /\ freed' = freed
       ELSE /\ emptyQ' = emptyQ
            /\ freed' = freed \cup {wBuf[w]}
    /\ wBuf' = [wBuf EXCEPT ![w] = NoBuf]
    /\ wPc' = [wPc EXCEPT ![w] = "recv"]
    /\ UNCHANGED <<input, errAt, workers, eof, fullQ, resultsQ, finishQ,
                   emptyRxLive, fullTxLive, mainPc, mainBuf, block, exitcode,
                   redPc, results, next, total, result, stdout, status,
                   panicked, reads, published, emitted, reordered, foldedSeq,
                   sent>>

\* ---- the reducer --------------------------------------------------------
\* while results.peek().map(|x| x.0) == Some(next) { pop; next += 1;
\* total.add(hash) }, on the reducer's own heap, next and total; folded is
\* the history of the sequence numbers folded.
\* One turn of the while loop: pop the least element, next += 1, total.add.
FoldTop(st) ==
    LET i == PeekIndex(st.results)
    IN  [results |-> RemoveAt(st.results, i),
         next |-> st.next + 1,
         total |-> HashResultAdd(st.total, st.results[i].res),
         folded |-> Append(st.folded, st.results[i].idx)]

\* Mutant of Drain: an if in place of the while, one pop per digest
\* received.
DrainOnce(st) ==
    IF PeekIsNext(st.results, st.next) THEN FoldTop(st) ELSE st

RECURSIVE Drain(_)
Drain(st) ==
    IF PeekIsNext(st.results, st.next)
    THEN CHOOSE r \in {Drain(t) : t \in {FoldTop(st)}} : TRUE
    ELSE st

\* One turn of for result in results_rx { results.push(result); while ... },
\* or, once the channel is closed and drained, the end of the loop and
\* let _ = finish_tx.send(total).
ReducerRecv ==
    /\ redPc = "recv"
    /\ resultsQ # <<>> \/ ~AnyWorkerLive
    /\ IF resultsQ # <<>>
       THEN /\ \E st \in {Drain([results |-> Append(results, Head(resultsQ)),
                                  next |-> next,
                                  total |-> total,
                                  folded |-> foldedSeq])} :
                   /\ results' = st.results
                   /\ next' = st.next
                   /\ total' = st.total
                   /\ foldedSeq' = st.folded
            /\ resultsQ' = Tail(resultsQ)
            /\ UNCHANGED <<finishQ, sent, redPc>>
       ELSE /\ finishQ' = Append(finishQ, total)
            /\ sent' = sent + 1
            /\ redPc' = "done"
            /\ UNCHANGED <<results, resultsQ, next, total, foldedSeq>>
    /\ UNCHANGED <<input, errAt, workers, eof, bufs, emptyQ, fullQ,
                   emptyRxLive, fullTxLive, mainPc, mainBuf, block, exitcode,
                   wPc, wBuf, result, stdout, status, freed, panicked, reads,
                   published, emitted, reordered>>

\* ---- the specification --------------------------------------------------
Next ==
    \/ ProducerAcquire
    \/ ProducerRead
    \/ ProducerSend
    \/ ProducerClose
    \/ MainJoin
    \/ MainRecvResult
    \/ MainPrint
    \/ MainExit
    \/ \E w \in Workers : WorkerRecv(w)
    \/ \E w \in Workers : WorkerEmit(w)
    \/ \E w \in Workers : WorkerRelease(w)
    \/ ReducerRecv

Spec == Init /\ [][Next]_vars

\* The scheduler runs some thread that can take a step.  Fairness to each
\* thread separately implies this, so what holds here holds under it too.
Fairness == WF_vars(Next)

FairSpec == Spec /\ Fairness

\* The program on inputs of up to LongLen bytes: every thread as in Next,
\* the producer reading the longer input.
NextLong ==
    \/ ProducerAcquire
    \/ ProducerReadLong
    \/ ProducerSend
    \/ ProducerClose
    \/ MainJoin
    \/ MainRecvResult
    \/ MainPrint
    \/ MainExit
    \/ \E w \in Workers : WorkerRecv(w)
    \/ \E w \in Workers : WorkerEmit(w)
    \/ \E w \in Workers : WorkerRelease(w)
    \/ ReducerRecv

\* Two workers, the fewest that emit digests out of order.
InitLong ==
    /\ workers = 2
    /\ Setup(Pool)

LongInputSpec == InitLong /\ [][NextLong]_vars

\* The program started with a smaller pool, under the same scheduling.
SmallPoolSpec == InitSmallPool /\ [][Next]_vars /\ Fairness

\* ---- the single-threaded reference --------------------------------------
\* The k-th consecutive BUF_SIZE slice of the input (k from 0).
BlockAt(inp, k) ==
    SubSeq(inp, k * BUF_SIZE + 1, Min((k + 1) * BUF_SIZE, Len(inp)))

\* Number of blocks a pass over n bytes cuts.
NumBlocks(n) == (n + BUF_SIZE - 1) \div BUF_SIZE

\* H(k, block): the keyed hash of the sequence number followed by the bytes.
RefH(k, bytes) == SipWrite(SipWrite(SipNew, U64Bytes(k)), bytes)

\* XOR over k = 0..n-1 of H(k, block_k).
RECURSIVE RefXor(_, _)
RefXor(inp, n) ==
    IF n = 0 THEN 0
    ELSE Xor(RefXor(inp, n - 1), RefH(n - 1, BlockAt(inp, n - 1)))

Delivered == result # <<>>
CleanInput == errAt = NoErr
InOrder(s) == \A i \in 1..Len(s) : s[i] = i - 1

\* ---- claims -------------------------------------------------------------

\* C1: for an input that ends with a clean end of input, whatever the worker
\* count and the interleaving, the result main receives has hash equal to
\* the XOR over k of H(k, block_k) of the input's consecutive BUF_SIZE
\* slices, the value of a single-threaded pass.
C1_DigestIsSinglePass ==
    (CleanInput /\ Delivered) =>
        result[1].hash = RefXor(input, NumBlocks(Len(input)))

\* C1 witness: a clean run of three blocks on two workers whose digests
\* reached the reducer out of sequence order.
C1_Witness ==
    /\ CleanInput /\ Delivered
    /\ workers >= 2
    /\ Len(published) >= 3
    /\ reordered

\* C2: for an input without read error, under fair scheduling the producer
\* closes the full-block channel, every worker exits, the reducer exits and
\* main receives a result.
C2_Terminates ==
    <>(\/ ~CleanInput
       \/ /\ ~fullTxLive
          /\ ~AnyWorkerLive
          /\ redPc = "done"
          /\ Delivered
          /\ mainPc = "exited")

\* C2 witness: a clean run of at least two blocks has exited.
C2_Witness ==
    /\ CleanInput /\ mainPc = "exited" /\ Delivered
    /\ ~AnyWorkerLive /\ redPc = "done"
    /\ Len(published) >= 2

\* C3: the reducer sends the total at most once, and once it has sent it the
\* result channel is closed and drained, the heap is empty and every
\* sequence number published has been folded.
C3_EmitOnceNoGap ==
    /\ sent <= 1
    /\ (redPc = "done") = (sent = 1)
    /\ sent = 1 =>
        /\ ~AnyWorkerLive
        /\ resultsQ = <<>>
        /\ results = <<>>
        /\ next = Len(published)
        /\ InOrder(foldedSeq) /\ Len(foldedSeq) = Len(published)

\* C3 witness: the total was sent after a digest had waited in the heap.
C3_Witness ==
    /\ sent = 1
    /\ Len(published) >= 2
    /\ reordered

\* C4: for an input read without error the length delivered is the number
\* of input bytes.
C4_LengthIsInputLength ==
    (CleanInput /\ Delivered) => result[1].len = Len(input)

\* C4 witness: a clean run over two whole blocks and a remainder.
C4_Witness ==
    /\ CleanInput /\ Delivered
    /\ Len(input) > 2 * BUF_SIZE
    /\ Len(input) % BUF_SIZE # 0

\* C5: when a read fails, N = errAt \div BUF_SIZE whole blocks were published
\* before it; the result is the fold of blocks 0..N-1 and its length is
\* N * BUF_SIZE: the bytes read into the failing block are not counted.
C5_ErrorPrefix ==
    (~CleanInput /\ Delivered) =>
        LET n == errAt \div BUF_SIZE
        IN  /\ Len(published) = n
            /\ \A i \in 1..n : Len(published[i][2]) = BUF_SIZE
            /\ result[1].hash = RefXor(input, n)
            /\ result[1].len = n * BUF_SIZE

\* C5 witness: a read failed inside a block, after a whole block.
C5_Witness ==
    /\ ~CleanInput /\ Delivered
    /\ errAt > BUF_SIZE
    /\ errAt % BUF_SIZE # 0

\* C6: the exit status is 0 when the producer reached the end of input and
\* non-zero exactly when a read failed; either way one result was sent,
\* received and printed before the exit.
C6_ExitStatus ==
    status # NoErr =>
        /\ (status = 0) = CleanInput
        /\ (status # 0) = (~CleanInput)
        /\ sent = 1
        /\ Delivered
        /\ finishQ = <<>>
        /\ Len(stdout) = 2
        /\ stdout[2].len = result[1].len

\* C6 witness: an exit after a read error that followed a published block.
C6_Witness ==
    /\ status = 1
    /\ Len(published) >= 1
    /\ Len(stdout) = 2

\* C7: once a read has failed the producer reads no more and publishes no
\* more; under fair scheduling it closes the full-block channel, every
\* block published is hashed and folded, workers and reducer terminate,
\* and nothing panics.  (A run ends without a read error, or reaches the
\* drained state: no read fails after main has exited.)
C7_ErrorDrains ==
    /\ [][exitcode = 1 => (reads' = reads /\ published' = published)]_vars
    /\ [](~panicked)
    /\ <>(\/ CleanInput /\ mainPc = "exited"
          \/ /\ exitcode = 1
             /\ ~fullTxLive
             /\ ~AnyWorkerLive
             /\ redPc = "done"
             /\ BagCardinality(emitted) = Len(published)
             /\ next = Len(published))

\* C7 witness: after a read error everything published, two blocks or more,
\* is folded and every thread is done.
C7_Witness ==
    /\ exitcode = 1
    /\ ~fullTxLive /\ ~AnyWorkerLive /\ redPc = "done"
    /\ Len(published) >= 2
    /\ next = Len(published)

\* C8: the sequence numbers folded so far are 0, 1, ..., next - 1 in that
\* order: a digest is folded only in its turn and only once.
C8_FoldInOrder ==
    /\ Len(foldedSeq) = next
    /\ InOrder(foldedSeq)

\* C8 witness: a digest waits in the heap for an earlier one, after a fold.
C8_Witness ==
    /\ next >= 1
    /\ redPc = "recv"
    /\ results # <<>>
    /\ reordered

\* C9: the blocks published carry the sequence numbers 0, 1, 2, ... in
\* publication order.
C9_PublishedInOrder ==
    /\ \A i \in 1..Len(published) : published[i][1] = i - 1
    /\ block = Len(published)

\* C9 witness: three blocks published through a pool of two buffers, so
\* the third went out in a recycled buffer.
C9_Witness ==
    /\ workers = 1
    /\ Len(published) >= 3

\* Number of places that hold buffer b: the two channels, the producer and
\* the workers.
Count(q, b) == Cardinality({i \in 1..Len(q) : q[i] = b})
Holders(b) ==
    Count(emptyQ, b) + Count(fullQ, b)
    + (IF mainBuf = b THEN 1 ELSE 0)
    + Cardinality({w \in Workers : wBuf[w] = b})

HeldCount ==
    Len(emptyQ) + Len(fullQ)
    + (IF mainBuf # NoBuf THEN 1 ELSE 0)
    + Cardinality({w \in Workers : wBuf[w] # NoBuf})

C12_EmptyInput ==
    (eof /\ CleanInput /\ input = <<>>) =>
        /\ published = <<>>
        /\ block = 0
        /\ Delivered => result[1] = [hash |-> 0, len |-> 0]
        /\ stdout # <<>> => stdout[2].len = 0
        /\ status # NoErr => status = 0

\* C12 witness: the program has exited on an empty input, its result
\* delivered by the reducer.
C12_Witness ==
    /\ eof /\ CleanInput /\ input = <<>>
    /\ Delivered
    /\ sent = 1
    /\ mainPc = "exited"
    /\ status = 0

\* What the program delivers with the default pool (C1, C4, C5): the fold
\* over the blocks of the input, or of the whole blocks before a failed
\* read.
DefaultPoolResult ==
    LET n == IF CleanInput THEN NumBlocks(Len(input))
             ELSE errAt \div BUF_SIZE
    IN  [hash |-> RefXor(input, n),
         len |-> IF CleanInput THEN Len(input) ELSE n * BUF_SIZE]

HexWidth == (HashBits + 3) \div 4
LowerHexDigits ==
    {"0", "1", "2", "3", "4", "5", "6", "7",
     "8", "9", "a", "b", "c", "d", "e", "f"}

\* C15 as stated: the digest line shows the hash as exactly HexWidth
\* lowercase hexadecimal digits, whatever its value, 0 and values with
\* leading zero digits included.
C15_FixedWidthHex ==
    stdout # <<>> =>
        /\ Len(stdout[1].hex) = HexWidth
        /\ \A i \in 1..Len(stdout[1].hex) : stdout[1].hex[i] \in LowerHexDigits

\* C15 witness: the digest line of an empty input is printed: hash 0.
C15_Witness ==
    /\ stdout # <<>>
    /\ CleanInput /\ input = <<>>
    /\ result[1].hash = 0
    /\ stdout[1].hex = <<"0">>

\* C16: every published block holds between 1 and BUF_SIZE bytes, the input
\* bytes at offsets seq * BUF_SIZE up to seq * BUF_SIZE + length; a block
\* shorter than BUF_SIZE is the last one published; a read of zero bytes
\* ends the producer without a block being published, and nothing is read
\* or published once the producer has left its loop.
C16_BlocksAreInputSlices ==
    /\ [](\A i \in 1..Len(published) :
            LET seq == published[i][1]
                bytes == published[i][2]
            IN  /\ Len(bytes) \in 1..BUF_SIZE
                /\ seq * BUF_SIZE + Len(bytes) <= Len(input)
                /\ bytes = SubSeq(input, seq * BUF_SIZE + 1,
                                  seq * BUF_SIZE + Len(bytes))
                /\ Len(bytes) < BUF_SIZE => i = Len(published))
    /\ [][(reads' = reads + 1 /\ input' = input /\ errAt' = errAt) =>
            (mainPc' = "close" /\ ~emptyRxLive' /\ published' = published
             /\ fullQ' = fullQ /\ block' = block)]_vars
    /\ [][~emptyRxLive => (reads' = reads /\ published' = published)]_vars

\* C16 witness: two whole blocks and a shorter last one were published in
\* recycled buffers and the read after them returned zero bytes.
C16_Witness ==
    /\ CleanInput
    /\ workers = 1
    /\ Len(published) = 3
    /\ Len(published[3][2]) < BUF_SIZE
    /\ reads = 4
    /\ mainPc = "close"

\* C17: every buffer in the empty-block channel has length 0, and so has
\* the buffer the producer is about to fill: a block never holds bytes of
\* an earlier block.
C17_EmptyChannelHoldsEmpty ==
    /\ \A i \in 1..Len(emptyQ) : bufs[emptyQ[i]].bytes = <<>>
    /\ mainPc = "read" => bufs[mainBuf].bytes = <<>>
    /\ \A w \in Workers :
        wPc[w] = "hash" => Len(bufs[wBuf[w]].bytes) <= BUF_SIZE

\* C17 witness: a buffer that carried a whole block with a sequence number
\* above zero is back in the empty-block channel.
C17_Witness ==
    /\ emptyRxLive
    /\ \E i \in 1..Len(emptyQ) :
        /\ bufs[emptyQ[i]].seq >= 1
        /\ published[bufs[emptyQ[i]].seq + 1][2] # <<>>

\* C18: every digest emitted on the result channel was emitted once, for a
\* published block, with that block's sequence number and its length as
\* byte count; no two digests carry the same sequence number; a worker
\* that took a block emits its digest before taking another; and once
\* every worker is done there is one digest for each published block.
C18_OneDigestPerBlock ==
    /\ \A r \in BagToSet(emitted) :
        /\ CopiesIn(r, emitted) = 1
        /\ r.idx + 1 \in 1..Len(published)
        /\ published[r.idx + 1][1] = r.idx
        /\ r.res.len = Len(published[r.idx + 1][2])
        /\ \A q \in BagToSet(emitted) : q.idx = r.idx => q = r
    /\ \A w \in Workers :
        wPc[w] = "hash" =>
            \A r \in BagToSet(emitted) : r.idx # bufs[wBuf[w]].seq
    /\ BagCardinality(emitted) <= Len(published)
    /\ ~AnyWorkerLive => BagCardinality(emitted) = Len(published)

\* C18 witness: two workers are done, each emitted a digest, and the three
\* blocks published, the last one short, have one digest each.
C18_Witness ==
    /\ workers = 2
    /\ ~AnyWorkerLive
    /\ Len(published) = 3
    /\ Len(published[3][2]) < BUF_SIZE
    /\ BagCardinality(emitted) = 3
    /\ reordered

\* C19: with the default pool and capacities the channel is never full
\* when the producer sends on full_buf or a worker sends on empty_buf, the
\* pool fits the empty-block channel at startup, and a worker is still
\* receiving whenever the producer sends: the expect never fires.
C19_SendsNeverBlock ==
    /\ mainPc = "send" => (Len(fullQ) < Capacity /\ AnyWorkerLive)
    /\ \A w \in Workers : wPc[w] = "release" => Len(emptyQ) < Capacity
    /\ Len(emptyQ) <= Capacity
    /\ Len(fullQ) <= Capacity
    /\ ~panicked
    /\ mainPc # "panic"

\* C19 witness: the producer sends its buffer while every other buffer of
\* the pool waits in the full-block channel and a worker holds none.
C19_Witness ==
    /\ mainPc = "send"
    /\ Len(fullQ) = 2 * workers - 1
    /\ \A w \in Workers : wPc[w] = "recv"
    /\ block >= 1

\* C20 as stated: the number of digests waiting in the reducer's heap never
\* exceeds the pool size, 2 * workers.
C20_HeapWithinPool == Len(results) <= 2 * workers

\* C20 amended: the pool bounds the blocks in flight and the capacity
\* bounds the result channel, but not the heap: the digests waiting there
\* carry different sequence numbers, all above next and all published, so
\* there are fewer than Len(published) - next of them.
C20_HeapWithinBacklog ==
    /\ Len(fullQ) + Cardinality({w \in Workers : wBuf[w] # NoBuf})
            <= 2 * workers
    /\ Len(resultsQ) <= Capacity
    /\ \A i \in 1..Len(results) :
        /\ results[i].idx > next
        /\ results[i].idx < Len(published)
        /\ \A j \in 1..Len(results) :
            results[i].idx = results[j].idx => i = j
    /\ results = <<>> \/ Len(results) < Len(published) - next

\* C20 witness: more digests than the pool has buffers wait in the heap
\* for block next, which a worker still holds.
C20_Witness ==
    /\ Len(results) > 2 * workers
    /\ \E w \in Workers : wPc[w] = "hash" /\ bufs[wBuf[w]].seq = next

====
